---------------------------- MODULE Spec2Model ----------------------------
(***************************************************************************)
(* shots-orger: a screenshot / screen-recording organizer.                 *)
(*                                                                         *)
(* Three variants of the program live in the repository:                   *)
(*   - the plan/execute variant      (src/unnamed/part_001)                *)
(*   - the creation-time variant     (src/main.ts)                         *)
(*   - the filename variant          (src/unnamed/part_000)                *)
(*                                                                         *)
(* Paths and file names are strings, as in the source; the string          *)
(* functions of JavaScript and node:path the code calls are defined below  *)
(* by what they compute.                                                   *)
(***************************************************************************)
EXTENDS Integers, Sequences, FiniteSets, TLC

(***************************************************************************)
(* Bounds of the model.                                                    *)
(***************************************************************************)
\* at most this many files under the root in the initial tree
MaxFiles == 2
\* the program is run at most this many times in a row on the same tree
MaxRuns == 2

(***************************************************************************)
(* JavaScript string functions.                                            *)
(***************************************************************************)
StartsWith(s, p) ==
    /\ Len(s) >= Len(p)
    /\ SubSeq(s, 1, Len(p)) = p

EndsWith(s, p) ==
    /\ Len(s) >= Len(p)
    /\ SubSeq(s, Len(s) - Len(p) + 1, Len(s)) = p

\* String.prototype.includes
Includes(s, p) ==
    \E i \in 1..(Len(s) - Len(p) + 1) : SubSeq(s, i, i + Len(p) - 1) = p

\* index of the first occurrence of p in s, 0 when there is none
IndexOf(s, p) ==
    LET hits == {i \in 1..(Len(s) - Len(p) + 1) : SubSeq(s, i, i + Len(p) - 1) = p}
    IN  IF hits = {} THEN 0 ELSE CHOOSE i \in hits : \A j \in hits : i <= j

\* String.prototype.replace with a string pattern: the first occurrence only
ReplaceFirst(s, p, r) ==
    LET i == IndexOf(s, p)
    IN  IF i = 0 THEN s
        ELSE SubSeq(s, 1, i - 1) \o r \o SubSeq(s, i + Len(p), Len(s))

UpperChars == "ABCDEFGHIJKLMNOPQRSTUVWXYZ"
LowerChars == "abcdefghijklmnopqrstuvwxyz"

LowerChar(c) ==
    LET i == IndexOf(UpperChars, c)
    IN  IF i = 0 THEN c ELSE SubSeq(LowerChars, i, i)

RECURSIVE ToLowerCase(_)
ToLowerCase(s) ==
    IF Len(s) = 0 THEN s
    ELSE LowerChar(SubSeq(s, 1, 1)) \o ToLowerCase(SubSeq(s, 2, Len(s)))

\* String.prototype.split('/')
RECURSIVE SplitSlash(_)
SplitSlash(s) ==
    LET i == IndexOf(s, "/")
    IN  IF i = 0 THEN <<s>>
        ELSE <<SubSeq(s, 1, i - 1)>> \o SplitSlash(SubSeq(s, i + 1, Len(s)))

\* s.replace(/^\//, '')
StripLeadingSlash(s) ==
    IF StartsWith(s, "/") THEN SubSeq(s, 2, Len(s)) ELSE s

DigitChars == "0123456789"

\* template-literal / toString formatting of a non-negative integer
RECURSIVE DecStr(_)
DecStr(n) ==
    IF n < 10 THEN SubSeq(DigitChars, n + 1, n + 1)
    ELSE DecStr(n \div 10) \o SubSeq(DigitChars, (n % 10) + 1, (n % 10) + 1)

(***************************************************************************)
(* node:path functions, on the absolute, normalised paths the program      *)
(* builds (no "." or ".." segment, no doubled or trailing slash).          *)
(***************************************************************************)
RECURSIVE Join(_)
Join(parts) ==
    IF Len(parts) = 0 THEN "."
    ELSE IF Len(parts) = 1 THEN parts[1]
    ELSE parts[1] \o "/" \o Join(Tail(parts))

\* index of the last "/" of p, 0 when there is none
LastSlash(p) ==
    LET hits == {i \in 1..Len(p) : SubSeq(p, i, i) = "/"}
    IN  IF hits = {} THEN 0 ELSE CHOOSE i \in hits : \A j \in hits : j <= i

Dirname(p) ==
    LET i == LastSlash(p)
    IN  IF i = 0 THEN "." ELSE IF i = 1 THEN "/" ELSE SubSeq(p, 1, i - 1)

Basename(p) == SubSeq(p, LastSlash(p) + 1, Len(p))


(***************************************************************************)
(* Constants and schemas shared by the variants.                           *)
(***************************************************************************)
\* The executor's bound. The source sets 5000 (part_001 line 11); the model
\* scales it down so that a plan can exceed it.
MAX_OPS == 1

\* a variant of MONTH_NAMES with abbreviated names, as the README draws them
MONTH_NAMES_Abbreviated ==
    << "01 Jan", "02 Feb", "03 March", "04 Apr", "05 May", "06 Jun",
       "07 Jul", "08 Aug", "09 Sep", "10 Oct", "11 Nov", "12 Dec" >>

MONTH_NAMES ==
    << "01 January", "02 February", "03 March", "04 April", "05 May",
       "06 June", "07 July", "08 August", "09 September", "10 October",
       "11 November", "12 December" >>

\* ParsedDateSchema.parse succeeds
ParsedDateSchema(date) ==
    /\ date.year \in Int /\ date.year >= 2020
    /\ date.month \in Int /\ date.month >= 1 /\ date.month <= 12
    /\ date.day \in Int /\ date.day >= 1 /\ date.day <= 31

\* NonEmptyStringSchema / DirectoryPathSchema .parse succeeds
NonEmptyStringSchema(s) == Len(s) >= 1

\* the resolved target directory of the run (part_001 keeps it process-wide)
rootDir == "/shots"

\* RootDirPathSchema.parse succeeds
RootDirPathSchema(path) ==
    /\ NonEmptyStringSchema(path)
    /\ StartsWith(path, rootDir)

\* the parts of a path relative to rootDir, as both refinements compute them
RelativeParts(path) ==
    SplitSlash(StripLeadingSlash(ReplaceFirst(path, rootDir, "")))

\* DestDirPathSchema.parse succeeds
DestDirPathSchema(path) ==
    /\ RootDirPathSchema(path)
    /\ LET parts == RelativeParts(path)
       IN  /\ Includes(parts[Len(parts)], ".")
           /\ \/ Len(parts) = 2
              \/ /\ Len(parts) = 3
                 /\ StartsWith(parts[1], "_")

(***************************************************************************)
(* Date resolver and path planner.                                         *)
(***************************************************************************)
\* The result of a function that may throw.
Ok(v) == [ok |-> TRUE, value |-> v, error |-> "none"]
Throw(e) == [ok |-> FALSE, value |-> "", error |-> e]

\* fileStat.birthtime || fileStat.mtime, cut to its calendar date; throws a
\* ZodError when the date fails ParsedDateSchema
getFileDateFromCreationTime(fileStat) ==
    LET date == [year |-> fileStat.birthtime.year,
                 month |-> fileStat.birthtime.month,
                 day |-> fileStat.birthtime.day]
    IN  IF ParsedDateSchema(date) THEN [ok |-> TRUE, value |-> date, error |-> "none"]
        ELSE [ok |-> FALSE, value |-> date, error |-> "ZodError"]

\* plan/execute variant: validatedDate.year < new Date().getFullYear()
isBeforeCurrentYear(date, now) == date.year < now

\* a variant of getTargetPath that leaves the month directory out of the path
\* of a file dated before the current year
getTargetPathYearOnly(file, now) ==
    LET d == getFileDateFromCreationTime(file.stat)
    IN  IF ~d.ok THEN Throw(d.error)
        ELSE
          LET validatedDate == d.value
              yearDirName == "_" \o DecStr(validatedDate.year)
              monthDirName == MONTH_NAMES[validatedDate.month]
              pathParts == IF isBeforeCurrentYear(validatedDate, now)
                           THEN <<rootDir, yearDirName, file.dirent.name>>
                           ELSE <<rootDir, monthDirName, file.dirent.name>>
              path == Join(pathParts)
          IN  IF DestDirPathSchema(path) THEN Ok(path) ELSE Throw("ZodError")

\* plan/execute variant: getTargetPath(file), reading the clock (now is the
\* current calendar year) and the process-wide rootDir
getTargetPath(file, now) ==
    LET d == getFileDateFromCreationTime(file.stat)
    IN  IF ~d.ok THEN Throw(d.error)
        ELSE
          LET validatedDate == d.value
              yearDirName == "_" \o DecStr(validatedDate.year)
              monthDirName == MONTH_NAMES[validatedDate.month]
              tailParts == <<monthDirName, file.dirent.name>>
              pathParts == IF isBeforeCurrentYear(validatedDate, now)
                           THEN <<rootDir, yearDirName>> \o tailParts
                           ELSE <<rootDir>> \o tailParts
              path == Join(pathParts)
          IN  IF ~NonEmptyStringSchema(monthDirName) THEN Throw("ZodError")
              ELSE IF DestDirPathSchema(path) THEN Ok(path)
              ELSE Throw("ZodError")

\* a variant of isArchivalYear whose range ends one year late
isArchivalYearThrough2024(year) == year >= 2020 /\ year <= 2024

\* creation-time and filename variants: the fixed archival range
isArchivalYear(year) == year >= 2020 /\ year <= 2023

\* creation-time and filename variants: getTargetPath(baseDir, date)
getTargetPathFixed(baseDir, date) ==
    IF ~(NonEmptyStringSchema(baseDir) /\ ParsedDateSchema(date))
    THEN Throw("ZodError")
    ELSE
      LET monthName == MONTH_NAMES[date.month]
          result == IF isArchivalYear(date.year)
                    THEN Join(<<baseDir, "_" \o DecStr(date.year), monthName>>)
                    ELSE Join(<<baseDir, monthName>>)
      IN  IF Includes(result, monthName) THEN Ok(result)
          ELSE Throw("AssertionError")

(***************************************************************************)
(* Classifier of the plan/execute variant.                                 *)
(***************************************************************************)
fileExts == <<"png", "jpg", "jpeg", "mov", "mp4", "gif", "mp3">>

shouldOrganizeFile(filename) ==
    \E i \in 1..Len(fileExts) : EndsWith(ToLowerCase(filename), fileExts[i])


(***************************************************************************)
(* The state: the directory tree under rootDir, the clock, and the         *)
(* position and locals of one run of the plan/execute variant's main.      *)
(***************************************************************************)
VARIABLES
    files,          \* the files on disk: full path -> [birthtime]
    dirs,           \* the directories on disk (full paths), rootDir included
    now,            \* the current calendar year, new Date().getFullYear()
    pc,             \* where main is: "main", "scan", "plan", "exec", "done", "failed"
    error,          \* what ended the run when pc = "failed", else "none"
    entries,        \* main's entries: the FileInfo list collectFileStats returned
    cursor,         \* planOperations: index of the next fileStat of its loop
    operations,     \* planOperations' maps, in insertion order
    executed,       \* executeOperations: how many operations of the slice are done
    totalConsolidated, \* executeOperations' counter
    run,            \* which run of the program this is (1, 2, ...)
    files0,         \* history: files when the current run started
    dirs0,          \* history: dirs when the current run started
    prevPlanSize,   \* history: size of plannedOps of the previous, completed run (-1: none)
    probe,          \* a function applied on its own: its inputs and its result
    exitCode,       \* the exit code of the process, -1 while it runs
    variant,        \* which program runs: "plan", "creation" or "filename"
    targetDir,      \* process.argv[2], "" when no argument was given
    stack,          \* sequential variants: the frames of organizeFiles, innermost last
    totalErrors,    \* creation-time variant: consolidateUnorganizedDirectories' counter
    results,        \* sequential variants: the counts organizeFiles returned to main
    log             \* what console.error has printed: a set of message kinds

vars == << files, dirs, now, pc, error, entries, cursor, operations, executed,
           totalConsolidated, run, files0, dirs0, prevPlanSize, probe, exitCode,
           variant, targetDir, stack, totalErrors, results, log >>

\* the state of the sequential variants and of the command line, which a
\* started run of the plan/execute variant leaves alone
seqVars == << variant, targetDir, stack, totalErrors, results, log >>

(***************************************************************************)
(* The trees the model starts from.                                        *)
(***************************************************************************)
DirPool == { rootDir, "/shots/inbox", "/shots/06 June" }
NamePool == { "a.png", "n.txt" }
YearPool == { 2019, 2025, 2026 }
MonthPool == { 6 }
DayPool == { 1 }
NowPool == { 2025, 2026 }
\* a _YYYY directory that holds nothing, for assertYearDirectoryStructure
EmptyYearDir == "/shots/_2024"

BirthPool == [year : YearPool, month : MonthPool, day : DayPool]
PathPool == { Join(<<d, n>>) : d \in DirPool, n \in NamePool }

\* d and every directory above it, up to rootDir
RECURSIVE UpToRoot(_)
UpToRoot(d) ==
    IF d = rootDir \/ ~StartsWith(d, rootDir) \/ Len(d) <= Len(rootDir) THEN {rootDir}
    ELSE {d} \cup UpToRoot(Dirname(d))

EmptyPlan == [plannedOps |-> <<>>, plannedMoves |-> <<>>, plannedRmdirs |-> <<>>]

NoProbe == [fn |-> "none"]

\* organizeFiles has not returned
NoResults == [returned |-> FALSE, processed |-> 0, skipped |-> 0]

Init ==
    /\ \E paths \in SUBSET PathPool :
         /\ Cardinality(paths) >= 1
         /\ Cardinality(paths) <= MaxFiles
         /\ \E births \in [paths -> BirthPool] :
              files = [p \in paths |-> [birthtime |-> births[p]]]
    /\ \E emptyYear \in BOOLEAN :
         dirs = UNION { UpToRoot(Dirname(p)) : p \in DOMAIN files }
                \cup (IF emptyYear THEN {EmptyYearDir} ELSE {})
    /\ now \in NowPool
    /\ pc = "main"
    /\ error = "none"
    /\ entries = <<>>
    /\ cursor = 1
    /\ operations = EmptyPlan
    /\ executed = 0
    /\ totalConsolidated = 0
    /\ run = 1
    /\ files0 = files
    /\ dirs0 = dirs
    /\ prevPlanSize = -1
    /\ probe = NoProbe
    /\ exitCode = -1
    /\ variant = "plan"
    /\ targetDir = rootDir
    /\ stack = <<>>
    /\ totalErrors = 0
    /\ results = NoResults
    /\ log = {}

(***************************************************************************)
(* assertYearDirectoryStructure: reads the tree, changes nothing.          *)
(***************************************************************************)
IsDigits(s) == \A i \in 1..Len(s) : Includes(DigitChars, SubSeq(s, i, i))

\* /^_\d{4}$/.test(entry)
IsYearDirName(entry) ==
    /\ Len(entry) = 5
    /\ SubSeq(entry, 1, 1) = "_"
    /\ IsDigits(SubSeq(entry, 2, 5))

\* the _YYYY directories directly under the root
YearDirs(ds) == { d \in ds : Dirname(d) = rootDir /\ IsYearDirName(Basename(d)) }

\* the subdirectories of yearPath whose name is not in MONTH_NAMES
findUnorganizedDirectories(ds, yearPath) ==
    { d \in ds : /\ Dirname(d) = yearPath
                 /\ \A m \in 1..12 : MONTH_NAMES[m] # Basename(d) }

\* the subdirectories of yearPath whose name is in MONTH_NAMES
organizedDirs(ds, yearPath) ==
    { d \in ds : /\ Dirname(d) = yearPath
                 /\ \E m \in 1..12 : MONTH_NAMES[m] = Basename(d) }

\* a variant of assertYearDirectoryStructure without its first assertion: a
\* year directory that holds no directory passes
assertYearDirectoryStructureAtMost24(ds) ==
    \A yearPath \in YearDirs(ds) :
        LET totalDirs == Cardinality(organizedDirs(ds, yearPath))
                         + Cardinality(findUnorganizedDirectories(ds, yearPath))
        IN  totalDirs <= 24

\* both assertions hold for every year directory
assertYearDirectoryStructure(ds) ==
    \A yearPath \in YearDirs(ds) :
        LET totalDirs == Cardinality(organizedDirs(ds, yearPath))
                         + Cardinality(findUnorganizedDirectories(ds, yearPath))
        IN  totalDirs > 0 /\ totalDirs <= 24

(***************************************************************************)
(* collectFileStats: one FileInfo per entry under the root, files and      *)
(* directories, in the order readdir returned them.                        *)
(***************************************************************************)
\* a directory's own timestamps are never read
DirStat == [birthtime |-> [year |-> 0, month |-> 0, day |-> 0]]

FileInfoOfFile(fs, p) ==
    [stat |-> fs[p],
     dirent |-> [parentPath |-> Dirname(p), name |-> Basename(p), isFile |-> TRUE]]

FileInfoOfDir(d) ==
    [stat |-> DirStat,
     dirent |-> [parentPath |-> Dirname(d), name |-> Basename(d), isFile |-> FALSE]]

FileEntries(fs) == { FileInfoOfFile(fs, p) : p \in DOMAIN fs }

DirEntries(ds) == { FileInfoOfDir(d) : d \in ds \ {rootDir} }

\* every order of the set S
Orders(S) ==
    { s \in [1..Cardinality(S) -> S] : \A i, j \in 1..Cardinality(S) : s[i] = s[j] => i = j }

\* one order of the set S
RECURSIVE SomeOrder(_)
SomeOrder(S) ==
    IF S = {} THEN <<>>
    ELSE LET x == CHOOSE y \in S : TRUE
         IN  <<x>> \o SomeOrder(S \ {x})

\* The lists readdir may return.  The files come in every order; the
\* directory entries, which the planner's first test passes over wherever
\* they stand, are listed ahead of them in one order.
collectFileStats(fs, ds) ==
    { SomeOrder(DirEntries(ds)) \o s : s \in Orders(FileEntries(fs)) }

FullPath(f) == Join(<<f.dirent.parentPath, f.dirent.name>>)


(***************************************************************************)
(* planOperations.  A Map is the sequence of its entries in insertion      *)
(* order; no key is ever set twice, so Map.set appends.                    *)
(***************************************************************************)
MapHas(map, key) == \E i \in 1..Len(map) : map[i].key = key

MapSet(map, key, value) == Append(map, [key |-> key, value |-> value])

\* the keys of existingFileMap: the full path of every file of the scan
existingFileMap(fileStats) ==
    { FullPath(fileStats[i]) : i \in { j \in 1..Len(fileStats) : fileStats[j].dirent.isFile } }

DuplicateDestination == "Duplicate destination planned"

MoveOp(src, dest) == [type |-> "move", src |-> src, dest |-> dest]

\* a variant of PlanIter without the skip of a destination that is an
\* existing file
PlanIterOntoExisting(plan, fileStat, existing, clock) ==
    IF ~fileStat.dirent.isFile THEN [plan |-> plan, error |-> "none"]
    ELSE IF ~shouldOrganizeFile(fileStat.dirent.name) THEN [plan |-> plan, error |-> "none"]
    ELSE IF fileStat.dirent.name \in existing THEN [plan |-> plan, error |-> "none"]
    ELSE IF ~RootDirPathSchema(FullPath(fileStat)) THEN [plan |-> plan, error |-> "ZodError"]
    ELSE
      LET srcPath == FullPath(fileStat)
          target == getTargetPath(fileStat, clock)
          destPath == target.value
      IN  IF ~target.ok THEN [plan |-> plan, error |-> target.error]
          ELSE IF MapHas(plan.plannedOps, destPath)
               THEN [plan |-> plan, error |-> DuplicateDestination]
          ELSE [plan |-> [plan EXCEPT
                            !.plannedOps = MapSet(@, destPath, MoveOp(srcPath, destPath)),
                            !.plannedMoves = MapSet(@, destPath, MoveOp(srcPath, destPath))],
                error |-> "none"]

\* a variant of PlanIter that keeps the first source of a destination and
\* passes over a later one instead of throwing
PlanIterKeepFirst(plan, fileStat, existing, clock) ==
    IF ~fileStat.dirent.isFile THEN [plan |-> plan, error |-> "none"]
    ELSE IF ~shouldOrganizeFile(fileStat.dirent.name) THEN [plan |-> plan, error |-> "none"]
    ELSE IF fileStat.dirent.name \in existing THEN [plan |-> plan, error |-> "none"]
    ELSE IF ~RootDirPathSchema(FullPath(fileStat)) THEN [plan |-> plan, error |-> "ZodError"]
    ELSE
      LET srcPath == FullPath(fileStat)
          target == getTargetPath(fileStat, clock)
          destPath == target.value
      IN  IF ~target.ok THEN [plan |-> plan, error |-> target.error]
          ELSE IF destPath \in existing THEN [plan |-> plan, error |-> "none"]
          ELSE IF MapHas(plan.plannedOps, destPath) THEN [plan |-> plan, error |-> "none"]
          ELSE [plan |-> [plan EXCEPT
                            !.plannedOps = MapSet(@, destPath, MoveOp(srcPath, destPath)),
                            !.plannedMoves = MapSet(@, destPath, MoveOp(srcPath, destPath))],
                error |-> "none"]

\* one iteration of the planning loop over fileStat: the maps after it, or
\* the error it throws
PlanIter(plan, fileStat, existing, clock) ==
    IF ~fileStat.dirent.isFile THEN [plan |-> plan, error |-> "none"]
    ELSE IF ~shouldOrganizeFile(fileStat.dirent.name) THEN [plan |-> plan, error |-> "none"]
    ELSE IF fileStat.dirent.name \in existing THEN [plan |-> plan, error |-> "none"]
    ELSE IF ~RootDirPathSchema(FullPath(fileStat)) THEN [plan |-> plan, error |-> "ZodError"]
    ELSE
      LET srcPath == FullPath(fileStat)
          target == getTargetPath(fileStat, clock)
          destPath == target.value
      IN  IF ~target.ok THEN [plan |-> plan, error |-> target.error]
          ELSE IF destPath \in existing THEN [plan |-> plan, error |-> "none"]
          ELSE IF MapHas(plan.plannedOps, destPath)
               THEN [plan |-> plan, error |-> DuplicateDestination]
          ELSE [plan |-> [plan EXCEPT
                            !.plannedOps = MapSet(@, destPath, MoveOp(srcPath, destPath)),
                            !.plannedMoves = MapSet(@, destPath, MoveOp(srcPath, destPath))],
                error |-> "none"]

\* the assertion loop after planning: no planned move targets a scanned file
PlanAssertions(plan, existing) ==
    IF \E i \in 1..Len(plan.plannedOps) :
           /\ plan.plannedOps[i].value.type = "move"
           /\ plan.plannedOps[i].value.dest \in existing
    THEN [plan |-> plan, error |-> DuplicateDestination]
    ELSE [plan |-> plan, error |-> "none"]

\* the loop over fileStats[from..]
RECURSIVE PlanLoop(_, _, _, _, _)
PlanLoop(plan, fileStats, from, existing, clock) ==
    IF from > Len(fileStats) THEN [plan |-> plan, error |-> "none"]
    ELSE LET r == PlanIter(plan, fileStats[from], existing, clock)
         IN  IF r.error # "none" THEN r
             ELSE PlanLoop(r.plan, fileStats, from + 1, existing, clock)

\* planOperations(fileStats): the PlanResults it returns, or the error it throws
planOperations(fileStats, clock) ==
    LET r == PlanLoop(EmptyPlan, fileStats, 1, existingFileMap(fileStats), clock)
    IN  IF r.error # "none" THEN r
        ELSE PlanAssertions(r.plan, existingFileMap(fileStats))

\* a variant of filesAfterPlanIter that moves a file as soon as it is planned
filesAfterEagerMove(fs, fileStat, r) ==
    LET n == Len(r.plan.plannedOps)
    IN  IF /\ r.error = "none"
           /\ n > 0
           /\ r.plan.plannedOps[n].value.src = FullPath(fileStat)
           /\ FullPath(fileStat) \in DOMAIN fs
        THEN LET src == FullPath(fileStat)
                 dest == r.plan.plannedOps[n].value.dest
             IN  [p \in (DOMAIN fs \ {src}) \cup {dest} |->
                    IF p = dest THEN fs[src] ELSE fs[p]]
        ELSE fs

\* planning only fills the maps: the files on disk after one iteration
filesAfterPlanIter(fs, fileStat, r) == fs

(***************************************************************************)
(* executeOperations.                                                      *)
(***************************************************************************)
Min(a, b) == IF a <= b THEN a ELSE b

\* Array.from(plannedOps.values()).slice(0, MAX_OPS)
ExecSlice(plan) ==
    LET n == Min(Len(plan.plannedOps), MAX_OPS)
    IN  [i \in 1..n |-> plan.plannedOps[i].value]

existsSync(fs, ds, path) == path \in ds \/ path \in DOMAIN fs

\* ensureDir(dirPath): the directories afterwards; mkdir -p throws when a
\* file sits where a directory is needed
ensureDir(fs, ds, dirPath) ==
    IF existsSync(fs, ds, dirPath) THEN [ok |-> TRUE, dirs |-> ds]
    ELSE IF \E a \in UpToRoot(dirPath) : a \in DOMAIN fs THEN [ok |-> FALSE, dirs |-> ds]
    ELSE [ok |-> TRUE, dirs |-> ds \cup UpToRoot(dirPath)]

\* rename(src, dest) is possible in the tree as it is
RenamePossible(fs, ds, src, dest) ==
    /\ src \in DOMAIN fs
    /\ Dirname(dest) \in ds
    /\ dest \notin ds

\* the files after a successful rename(src, dest): dest is replaced
Rename(fs, src, dest) ==
    [p \in (DOMAIN fs \ {src}) \cup {dest} |-> IF p = dest THEN fs[src] ELSE fs[p]]

\* one operation of the slice; granted: the file system lets the rename or
\* rmdir through (permissions, same device)
ExecOp(fs, ds, op, granted) ==
    IF op.type = "move"
    THEN IF ~(StartsWith(op.src, rootDir) /\ StartsWith(op.dest, rootDir))
         THEN [files |-> fs, dirs |-> ds, error |-> "AssertionError", moved |-> 0]
         ELSE LET made == ensureDir(fs, ds, Dirname(op.dest))
              IN  IF ~made.ok
                  THEN [files |-> fs, dirs |-> ds, error |-> "mkdir failed", moved |-> 0]
                  ELSE IF ~(granted /\ RenamePossible(fs, made.dirs, op.src, op.dest))
                  THEN [files |-> fs, dirs |-> made.dirs, error |-> "rename failed", moved |-> 0]
                  ELSE [files |-> Rename(fs, op.src, op.dest), dirs |-> made.dirs,
                        error |-> "none", moved |-> 1]
    ELSE IF op.type = "rmdir"
    THEN IF /\ granted
            /\ op.dir \in ds
            /\ ~\E p \in DOMAIN fs : Dirname(p) = op.dir
            /\ ~\E d \in ds : Dirname(d) = op.dir
         THEN [files |-> fs, dirs |-> ds \ {op.dir}, error |-> "none", moved |-> 0]
         ELSE [files |-> fs, dirs |-> ds, error |-> "rmdir failed", moved |-> 0]
    ELSE [files |-> fs, dirs |-> ds, error |-> "none", moved |-> 0]

(***************************************************************************)
(* main of the plan/execute variant, one step per await or loop iteration. *)
(***************************************************************************)
\* a variant of AfterThrow: the error is logged and main carries on
AfterThrowCarryOn == "exec"

\* a variant of ExecutorRuns: operations are executed while the plan is built
ExecutorRunsEarly == pc \in {"plan", "exec"}

\* an exception thrown under main rejects main's promise: nothing after the
\* throwing statement runs
AfterThrow == "failed"

\* main().catch(console.error): the rejection is handled by printing it, and
\* the process then ends as one that ran to its end
RejectedExitCode == 0

\* executeOperations is called once planOperations has returned
ExecutorRuns == pc = "exec"

Validate ==
    /\ pc = "main"
    /\ IF assertYearDirectoryStructure(dirs)
       THEN pc' = "scan" /\ error' = error /\ exitCode' = exitCode
       ELSE pc' = AfterThrow /\ error' = "AssertionError" /\ exitCode' = RejectedExitCode
    /\ UNCHANGED << files, dirs, now, entries, cursor, operations, executed,
                    totalConsolidated, run, files0, dirs0, prevPlanSize, probe, seqVars >>

Scan ==
    /\ pc = "scan"
    /\ entries' \in collectFileStats(files, dirs)
    /\ pc' = "plan"
    /\ cursor' = 1
    /\ operations' = EmptyPlan
    /\ UNCHANGED << files, dirs, now, error, executed, totalConsolidated, run,
                    files0, dirs0, prevPlanSize, probe, exitCode, seqVars >>

PlanStep ==
    /\ pc = "plan"
    /\ cursor <= Len(entries)
    /\ \E r \in { PlanIter(operations, entries[cursor], existingFileMap(entries), now) } :
           /\ operations' = r.plan
           /\ files' = filesAfterPlanIter(files, entries[cursor], r)
           /\ IF r.error # "none"
              THEN /\ pc' = AfterThrow /\ error' = r.error /\ cursor' = cursor
                   /\ exitCode' = RejectedExitCode
              ELSE /\ pc' = pc /\ error' = error /\ cursor' = cursor + 1
                   /\ exitCode' = exitCode
    /\ UNCHANGED << dirs, now, entries, executed, totalConsolidated, run,
                    files0, dirs0, prevPlanSize, probe, seqVars >>

PlanReturn ==
    /\ pc = "plan"
    /\ cursor > Len(entries)
    /\ LET r == PlanAssertions(operations, existingFileMap(entries))
       IN  IF r.error # "none"
           THEN pc' = AfterThrow /\ error' = r.error /\ exitCode' = RejectedExitCode
           ELSE pc' = "exec" /\ error' = error /\ exitCode' = exitCode
    /\ executed' = 0
    /\ totalConsolidated' = 0
    /\ UNCHANGED << files, dirs, now, entries, cursor, operations, run,
                    files0, dirs0, prevPlanSize, probe, seqVars >>

ExecStep ==
    /\ ExecutorRuns
    /\ executed < Len(ExecSlice(operations))
    /\ \E granted \in BOOLEAN :
         \E r \in { ExecOp(files, dirs, ExecSlice(operations)[executed + 1], granted) } :
             /\ files' = r.files
             /\ dirs' = r.dirs
             /\ IF r.error # "none"
                THEN /\ pc' = AfterThrow /\ error' = r.error
                     /\ exitCode' = RejectedExitCode
                     /\ UNCHANGED << executed, totalConsolidated >>
                ELSE /\ pc' = pc /\ error' = error
                     /\ exitCode' = exitCode
                     /\ executed' = executed + 1
                     /\ totalConsolidated' = totalConsolidated + r.moved
    /\ UNCHANGED << now, entries, cursor, operations, run, files0, dirs0, prevPlanSize, probe, seqVars >>

ExecReturn ==
    /\ pc = "exec"
    /\ executed >= Len(ExecSlice(operations))
    /\ pc' = "done"
    /\ exitCode' = 0
    /\ UNCHANGED << files, dirs, now, error, entries, cursor, operations, executed,
                    totalConsolidated, run, files0, dirs0, prevPlanSize, probe, seqVars >>

\* the program is started again on the tree a completed run left
Rerun ==
    /\ pc = "done"
    /\ run < MaxRuns
    /\ run' = run + 1
    /\ pc' = "main"
    /\ entries' = <<>>
    /\ cursor' = 1
    /\ operations' = EmptyPlan
    /\ executed' = 0
    /\ totalConsolidated' = 0
    /\ files0' = files
    /\ dirs0' = dirs
    /\ prevPlanSize' = Len(operations.plannedOps)
    /\ exitCode' = -1
    /\ UNCHANGED << files, dirs, now, error, probe, seqVars >>

Next ==
    \/ Validate
    \/ Scan
    \/ PlanStep
    \/ PlanReturn
    \/ ExecStep
    \/ ExecReturn
    \/ Rerun

Spec == Init /\ [][Next]_vars


(***************************************************************************)
(* The path planner on its own: getTargetPath of the creation-time and     *)
(* filename variants and of the plan/execute variant, applied to one date. *)
(***************************************************************************)
mainVars == << files, dirs, now, pc, error, entries, cursor, operations, executed,
               totalConsolidated, run, files0, dirs0, prevPlanSize, exitCode, seqVars >>

\* no run of main is in progress
NoRun ==
    /\ files = << >>
    /\ dirs = {rootDir}
    /\ pc = "idle"
    /\ error = "none"
    /\ entries = <<>>
    /\ cursor = 1
    /\ operations = EmptyPlan
    /\ executed = 0
    /\ totalConsolidated = 0
    /\ run = 0
    /\ files0 = << >>
    /\ dirs0 = {rootDir}
    /\ prevPlanSize = -1
    /\ exitCode = -1
    /\ variant = "none"
    /\ targetDir = rootDir
    /\ stack = <<>>
    /\ totalErrors = 0
    /\ results = NoResults
    /\ log = {}

ProbeYears == 2018..2027
ProbeMonths == 0..13
ProbeDays == {0, 1, 31, 32}
ProbeBaseDirs == {rootDir, "/Users/sam/Desktop"}
ProbeName == "Screenshot 2025-06-01 at 09.00.00 AM.png"

PathInit ==
    /\ NoRun
    /\ now \in NowPool
    /\ \E baseDir \in ProbeBaseDirs, y \in ProbeYears, m \in ProbeMonths, d \in ProbeDays :
         probe = [fn |-> "getTargetPath", called |-> FALSE, baseDir |-> baseDir,
                  date |-> [year |-> y, month |-> m, day |-> d],
                  fixed |-> Throw("pending"), planned |-> Throw("pending")]

ApplyGetTargetPath ==
    /\ probe.fn = "getTargetPath"
    /\ ~probe.called
    /\ probe' = [probe EXCEPT
                   !.called = TRUE,
                   !.fixed = getTargetPathFixed(probe.baseDir, probe.date),
                   !.planned = getTargetPath(
                       [stat |-> [birthtime |-> probe.date],
                        dirent |-> [parentPath |-> rootDir, name |-> ProbeName,
                                    isFile |-> TRUE]], now)]
    /\ UNCHANGED mainVars

PathNext == ApplyGetTargetPath

SpecPath == PathInit /\ [][PathNext]_vars


(***************************************************************************)
(* The planner on its own: planOperations called twice on one list of      *)
(* FileInfo records, each call reading the clock for itself.               *)
(***************************************************************************)
\* the FileInfo lists of one or two files with different paths
ProbeFileStats ==
    LET infos == { [stat |-> [birthtime |-> b],
                    dirent |-> [parentPath |-> d, name |-> n, isFile |-> TRUE]] :
                   b \in BirthPool, d \in DirPool, n \in NamePool }
    IN  { <<f>> : f \in infos }
        \cup { pair \in infos \X infos : FullPath(pair[1]) # FullPath(pair[2]) }

DetInit ==
    /\ NoRun
    /\ now \in NowPool
    /\ \E fileStats \in ProbeFileStats, later \in NowPool :
         probe = [fn |-> "planOperations", called |-> FALSE, fileStats |-> fileStats,
                  later |-> later,
                  first |-> [plan |-> EmptyPlan, error |-> "pending"],
                  second |-> [plan |-> EmptyPlan, error |-> "pending"]]

\* the first call reads the year now, the second one the year probe.later
ApplyPlanOperationsTwice ==
    /\ probe.fn = "planOperations"
    /\ ~probe.called
    /\ probe' = [probe EXCEPT
                   !.called = TRUE,
                   !.first = planOperations(probe.fileStats, now),
                   !.second = planOperations(probe.fileStats, probe.later)]
    /\ UNCHANGED mainVars

DetNext == ApplyPlanOperationsTwice

SpecDet == DetInit /\ [][DetNext]_vars


(***************************************************************************)
(* Classifier and date resolver of the filename variant                    *)
(* (src/unnamed/part_000).                                                 *)
(***************************************************************************)
\* FilenameSchema.parse succeeds
FilenameSchema(rawFilename) == Len(rawFilename) >= 1

\* the character of s at index i, "" outside s
CharAt(s, i) == IF i >= 1 /\ i <= Len(s) THEN SubSeq(s, i, i) ELSE ""

IsDigit(c) == Len(c) = 1 /\ Includes(DigitChars, c)

\* s holds p at index i
HasAt(s, i, p) == i >= 1 /\ i + Len(p) - 1 <= Len(s) /\ SubSeq(s, i, i + Len(p) - 1) = p

\* (\d{4})-(\d{2})-(\d{2}) matches s at index i
DateAt(s, i) ==
    /\ i >= 1
    /\ i + 9 <= Len(s)
    /\ \A k \in {0, 1, 2, 3, 5, 6, 8, 9} : IsDigit(CharAt(s, i + k))
    /\ CharAt(s, i + 4) = "-"
    /\ CharAt(s, i + 7) = "-"

\* Number.parseInt(s, 10) of a string of digits
RECURSIVE ParseInt(_)
ParseInt(s) ==
    IF Len(s) = 0 THEN 0
    ELSE 10 * ParseInt(SubSeq(s, 1, Len(s) - 1))
         + (IndexOf(DigitChars, SubSeq(s, Len(s), Len(s))) - 1)

MinOf(S) == CHOOSE i \in S : \A j \in S : i <= j

\* where the date captured by standardPattern starts, 0 when it does not match
\* /(?:Screenshot|Screen Recording) (\d{4})-(\d{2})-(\d{2}) at/
standardPattern(s) ==
    LET hits == { i \in 1..Len(s) :
                    \E word \in {"Screenshot ", "Screen Recording "} :
                        /\ HasAt(s, i, word)
                        /\ DateAt(s, i + Len(word))
                        /\ HasAt(s, i + Len(word) + 10, " at") }
    IN  IF hits = {} THEN 0
        ELSE LET i == MinOf(hits)
             IN  IF HasAt(s, i, "Screenshot ") THEN i + 11 ELSE i + 17

\* /^(\d{4})-(\d{2})-(\d{2})_/
timestampPattern(s) == IF DateAt(s, 1) /\ HasAt(s, 11, "_") THEN 1 ELSE 0

\* /Simulator Screenshot.*?(\d{4})-(\d{2})-(\d{2}) at/
simulatorPattern(s) ==
    LET dates(i) == { j \in (i + 20)..Len(s) : DateAt(s, j) /\ HasAt(s, j + 10, " at") }
        hits == { i \in 1..Len(s) : HasAt(s, i, "Simulator Screenshot") /\ dates(i) # {} }
    IN  IF hits = {} THEN 0 ELSE MinOf(dates(MinOf(hits)))

NullDate == [year |-> 0, month |-> 0, day |-> 0]

\* parseFileDate(rawFilename): a date, null, or the error it throws
parseFileDate(rawFilename) ==
    IF ~FilenameSchema(rawFilename)
    THEN [ok |-> FALSE, isNull |-> FALSE, value |-> NullDate, error |-> "ZodError"]
    ELSE
      LET std == standardPattern(rawFilename)
          ts == timestampPattern(rawFilename)
          sim == simulatorPattern(rawFilename)
          match == IF std # 0 THEN std ELSE IF ts # 0 THEN ts ELSE sim
      IN  IF match = 0
          THEN [ok |-> TRUE, isNull |-> TRUE, value |-> NullDate, error |-> "none"]
          ELSE
            LET date == [year |-> ParseInt(SubSeq(rawFilename, match, match + 3)),
                         month |-> ParseInt(SubSeq(rawFilename, match + 5, match + 6)),
                         day |-> ParseInt(SubSeq(rawFilename, match + 8, match + 9))]
            IN  IF ParsedDateSchema(date)
                THEN [ok |-> TRUE, isNull |-> FALSE, value |-> date, error |-> "none"]
                ELSE [ok |-> FALSE, isNull |-> FALSE, value |-> date, error |-> "ZodError"]

\* lowerName.includes(...) of the three markers
isScreenCapture(lowerName) ==
    \/ Includes(lowerName, "screenshot")
    \/ Includes(lowerName, "screen recording")
    \/ Includes(lowerName, "simulator screenshot")

\* /\.(?:png|jpg|jpeg|mov|mp4|gif)$/i
hasMediaExtension(filename) ==
    \E ext \in {"png", "jpg", "jpeg", "mov", "mp4", "gif"} :
        EndsWith(ToLowerCase(filename), "." \o ext)

\* /^\d{4}-\d{2}-\d{2}_/
hasTimestampPattern(filename) == DateAt(filename, 1) /\ HasAt(filename, 11, "_")

\* shouldOrganizeFile of the filename variant: a boolean, or the error it throws
shouldOrganizeFileByName(rawFilename) ==
    IF ~FilenameSchema(rawFilename)
    THEN [ok |-> FALSE, value |-> FALSE, error |-> "ZodError"]
    ELSE [ok |-> TRUE,
          value |-> \/ (isScreenCapture(ToLowerCase(rawFilename)) /\ hasMediaExtension(rawFilename))
                    \/ hasTimestampPattern(rawFilename),
          error |-> "none"]

\* shouldOrganizeFile of the creation-time variant: the list has no mp3
fileExtsCreation == <<"png", "jpg", "jpeg", "mov", "mp4", "gif">>

shouldOrganizeFileCreation(filename) ==
    \E i \in 1..Len(fileExtsCreation) : EndsWith(ToLowerCase(filename), fileExtsCreation[i])

(***************************************************************************)
(* The classifiers and the date resolver on their own, applied to one      *)
(* file name.                                                              *)
(***************************************************************************)
ProbePrefixes ==
    { "", "Screenshot ", "SCREENSHOT ", "Screen Recording ",
      "Simulator Screenshot - iPhone 15 - ", "IMG_", "notes " }
ProbeStems ==
    { "", "2025-06-01 at 09.00.00 AM", "2025-06-01_09-00-00",
      "2019-06-01 at 09.00.00 AM", "2031-13-32 at 09.00.00 AM" }
ProbeSuffixes == { "", ".png", ".PNG", "png", ".txt", ".mp3" }
ProbeFilenames ==
    { a \o b \o c : a \in ProbePrefixes, b \in ProbeStems, c \in ProbeSuffixes }

NameInit ==
    /\ NoRun
    /\ now \in NowPool
    /\ \E filename \in ProbeFilenames :
         probe = [fn |-> "filename", filename |-> filename,
                  classified |-> FALSE, resolved |-> FALSE,
                  byExtension |-> [ok |-> FALSE, value |-> FALSE, error |-> "pending"],
                  byName |-> [ok |-> FALSE, value |-> FALSE, error |-> "pending"],
                  date |-> [ok |-> FALSE, isNull |-> FALSE, value |-> NullDate,
                            error |-> "pending"]]

\* both classifiers are applied to the name
ApplyShouldOrganizeFile ==
    /\ probe.fn = "filename"
    /\ ~probe.classified
    /\ probe' = [probe EXCEPT
                   !.classified = TRUE,
                   !.byExtension = [ok |-> TRUE,
                                    value |-> shouldOrganizeFile(probe.filename),
                                    error |-> "none"],
                   !.byName = shouldOrganizeFileByName(probe.filename)]
    /\ UNCHANGED mainVars

ApplyParseFileDate ==
    /\ probe.fn = "filename"
    /\ ~probe.resolved
    /\ probe' = [probe EXCEPT
                   !.resolved = TRUE,
                   !.date = parseFileDate(probe.filename)]
    /\ UNCHANGED mainVars

NameNext ==
    \/ ApplyShouldOrganizeFile
    \/ ApplyParseFileDate

SpecName == NameInit /\ [][NameNext]_vars

(***************************************************************************)
(* The command line: what each variant does before its first look at the   *)
(* tree (main.ts lines 401-426, part_000 lines 281-305, part_001 lines     *)
(* 55-60 and 426-439).                                                     *)
(***************************************************************************)
\* resolve(targetDir) of the absolute, normalised paths of the model
resolve(path) == path

\* the creation-time and filename variants: usage or error message on
\* stderr and process.exit(1); otherwise main goes on
mainStartSequential(v, dir, fs, ds) ==
    IF dir = ""
    THEN [pc |-> "exited", exitCode |-> 1, error |-> "none", logged |-> "Usage"]
    ELSE IF ~existsSync(fs, ds, resolve(dir))
    THEN [pc |-> "exited", exitCode |-> 1, error |-> "none",
          logged |-> "Directory does not exist"]
    ELSE [pc |-> IF v = "creation" THEN "validate" ELSE "organize",
          exitCode |-> -1, error |-> "none", logged |-> "none"]

\* the plan/execute variant: DirectoryPathSchema.parse(targetDir) runs while
\* the module loads, outside main and outside any handler; the directory test
\* is an assertion inside main
mainStartPlan(dir, fs, ds) ==
    IF ~NonEmptyStringSchema(dir)
    THEN [pc |-> "exited", exitCode |-> 1, error |-> "ZodError", logged |-> "ZodError"]
    ELSE IF ~existsSync(fs, ds, resolve(dir))
    THEN [pc |-> AfterThrow, exitCode |-> RejectedExitCode, error |-> "AssertionError",
          logged |-> "AssertionError"]
    ELSE [pc |-> "main", exitCode |-> -1, error |-> "none", logged |-> "none"]

mainStart(v, dir, fs, ds) ==
    IF v = "plan" THEN mainStartPlan(dir, fs, ds) ELSE mainStartSequential(v, dir, fs, ds)

(***************************************************************************)
(* main.ts: the test of the organized directories.                         *)
(***************************************************************************)
\* \w+
IsWord(s) ==
    /\ Len(s) >= 1
    /\ \A i \in 1..Len(s) :
           Includes(LowerChars \o UpperChars \o DigitChars \o "_", SubSeq(s, i, i))

\* \d{2} \w+ up to the next "/"
IsMonthDirLike(part) ==
    /\ Len(part) >= 4
    /\ IsDigit(CharAt(part, 1))
    /\ IsDigit(CharAt(part, 2))
    /\ CharAt(part, 3) = " "
    /\ IsWord(SubSeq(part, 4, Len(part)))

\* a variant of isFileInOrganizedDirectory without yearDirPattern
isFileInOrganizedDirectoryOfRoot(filePath, root) ==
    LET parts == SplitSlash(StripLeadingSlash(ReplaceFirst(filePath, root, "")))
    IN  /\ Len(parts) >= 2
        /\ IsMonthDirLike(parts[1])

\* yearDirPattern.test(relativePath) || monthDirPattern.test(relativePath)
isFileInOrganizedDirectory(filePath, root) ==
    LET parts == SplitSlash(StripLeadingSlash(ReplaceFirst(filePath, root, "")))
    IN  \/ /\ Len(parts) >= 3
           /\ IsYearDirName(parts[1])
           /\ IsMonthDirLike(parts[2])
        \/ /\ Len(parts) >= 2
           /\ IsMonthDirLike(parts[1])

(***************************************************************************)
(* The trees and arguments the sequential variants are started on.         *)
(***************************************************************************)
ShotOf2025 == "Screenshot 2025-06-01 at 09.00.00 AM.png"
ShotOf2019 == "Screenshot 2019-06-01 at 09.00.00 AM.png"

\* loose files under the root, files in a month directory of the root and of
\* a year directory, and files in an unorganized directory of a year directory
SeqPathPool ==
    { Join(<<rootDir, ShotOf2025>>),
      Join(<<rootDir, ShotOf2019>>),
      Join(<<rootDir, "n.txt">>),
      Join(<<rootDir, "06 June", ShotOf2025>>),
      Join(<<rootDir, "06 June", "n.txt">>),
      Join(<<rootDir, "_2023", "06 June", ShotOf2025>>),
      Join(<<rootDir, "_2023", "misc", ShotOf2025>>),
      Join(<<rootDir, "_2023", "misc", "n.txt">>) }
SeqYearPool == { 2019, 2023, 2025 }
TargetDirPool == { "", "/nowhere", rootDir }

SeqBirthPool == [year : SeqYearPool, month : MonthPool, day : DayPool]

\* a creation time no variant reads
UnreadBirth == [year |-> 2025, month |-> 6, day |-> 1]

\* The creation times a file at path may have.  The filename variant never
\* reads one; main.ts reads it only behind its classifier and its test of
\* the organized directories (lines 187-199 and 350), the plan/execute
\* variant only behind its classifier (part_001 lines 330-340); the time of
\* any other file is left at one value.
SeqBirthsOf(v, path) ==
    IF \/ /\ v = "creation"
          /\ shouldOrganizeFileCreation(Basename(path))
          /\ ~isFileInOrganizedDirectory(path, rootDir)
       \/ /\ v = "plan"
          /\ shouldOrganizeFile(Basename(path))
    THEN SeqBirthPool
    ELSE {UnreadBirth}

\* a program of variants is started with some argument on some tree
StartOn(variants) ==
    /\ variant \in variants
    /\ targetDir \in TargetDirPool
    /\ \E paths \in SUBSET SeqPathPool :
         /\ Cardinality(paths) >= 1
         /\ Cardinality(paths) <= MaxFiles
         /\ \E births \in [paths -> SeqBirthPool \cup {UnreadBirth}] :
              /\ \A p \in paths : births[p] \in SeqBirthsOf(variant, p)
              /\ files = [p \in paths |-> [birthtime |-> births[p]]]
    /\ \E emptyYear \in BOOLEAN :
         dirs = UNION { UpToRoot(Dirname(p)) : p \in DOMAIN files }
                \cup (IF emptyYear /\ variant \in {"creation", "plan"}
                      THEN {EmptyYearDir} ELSE {})
    /\ now = 2025
    /\ pc = "start"
    /\ error = "none"
    /\ entries = <<>>
    /\ cursor = 1
    /\ operations = EmptyPlan
    /\ executed = 0
    /\ totalConsolidated = 0
    /\ run = 1
    /\ files0 = files
    /\ dirs0 = dirs
    /\ prevPlanSize = -1
    /\ probe = NoProbe
    /\ exitCode = -1
    /\ stack = <<>>
    /\ totalErrors = 0
    /\ results = NoResults
    /\ log = {}

\* what console.error has printed once msg is added ("none": nothing new)
Logged(msg) == IF msg = "none" THEN log ELSE log \cup {msg}

\* module initialisation and the top of main, up to the first await
Startup ==
    /\ pc = "start"
    /\ \E r \in { mainStart(variant, targetDir, files, dirs) } :
           /\ pc' = r.pc
           /\ exitCode' = r.exitCode
           /\ error' = r.error
           /\ log' = Logged(r.logged)
    /\ UNCHANGED << files, dirs, now, entries, cursor, operations, executed,
                    totalConsolidated, run, files0, dirs0, prevPlanSize, probe,
                    variant, targetDir, stack, totalErrors, results >>

CliInit == StartOn({"plan", "creation", "filename"})

CliNext == Startup

SpecCli == CliInit /\ [][CliNext]_vars

(***************************************************************************)
(* The creation-time variant (src/main.ts) and the filename variant        *)
(* (src/unnamed/part_000): main after its argument checks.                 *)
(***************************************************************************)
\* readdir(dirPath): the files and directories directly in dirPath, as paths
readdir(fs, ds, dirPath) ==
    { p \in DOMAIN fs \cup (ds \ {rootDir}) : Dirname(p) = dirPath }

\* the lists findAllFiles builds while it has the entries of pending still to
\* visit: a directory is replaced by its own entries, read in any order, and
\* a file is pushed
RECURSIVE WalkEntries(_, _, _)
WalkEntries(fs, ds, pending) ==
    IF Len(pending) = 0 THEN { <<>> }
    ELSE IF pending[1] \in ds
    THEN UNION { WalkEntries(fs, ds, order \o Tail(pending)) :
                 order \in Orders(readdir(fs, ds, pending[1])) }
    ELSE { <<pending[1]>> \o rest : rest \in WalkEntries(fs, ds, Tail(pending)) }

\* findAllFiles(dirPath): the lists it may return, depth first
findAllFiles(fs, ds, dirPath) == WalkEntries(fs, ds, <<dirPath>>)

\* one frame of organizeFiles: the directory, the list it iterates, the
\* index of the next entry, its two counters
Frame(dir, listing) ==
    [dir |-> dir, listing |-> listing, i |-> 1, processed |-> 0, skipped |-> 0]

Top == stack[Len(stack)]

\* the outcomes of one iteration over a file
Skipped(fs, ds, logged) ==
    [files |-> fs, dirs |-> ds, processed |-> 0, skipped |-> 1,
     thrown |-> "none", logged |-> logged]

Thrown(fs, ds, e) ==
    [files |-> fs, dirs |-> ds, processed |-> 0, skipped |-> 0,
     thrown |-> e, logged |-> e]

\* a variant of RenameFailed without the try around rename: the failure
\* leaves the loop
RenameFailedLeavesLoop(fs, ds) == Thrown(fs, ds, "rename failed")

\* the catch around rename (part_000), around the whole iteration (main.ts):
\* the failure is printed and the file counted as skipped
RenameFailed(fs, ds) == Skipped(fs, ds, "rename failed")

\* a variant of MoveInto without the existsSync(targetFile) test: rename
\* replaces a file that stands at the target
MoveIntoOverwrites(fs, ds, filePath, targetPath, granted, mkdirFailed) ==
    LET targetFile == Join(<<targetPath, Basename(filePath)>>)
        made == ensureDir(fs, ds, targetPath)
    IN  IF ~made.ok THEN mkdirFailed
        ELSE IF ~(granted /\ RenamePossible(fs, made.dirs, filePath, targetFile))
        THEN RenameFailed(fs, made.dirs)
        ELSE [files |-> Rename(fs, filePath, targetFile), dirs |-> made.dirs,
              processed |-> 1, skipped |-> 0, thrown |-> "none", logged |-> "none"]

\* from ensureDir to the end of the iteration, the same in both variants but
\* for what catches a failing mkdir
MoveInto(fs, ds, filePath, targetPath, granted, mkdirFailed) ==
    LET targetFile == Join(<<targetPath, Basename(filePath)>>)
        made == ensureDir(fs, ds, targetPath)
    IN  IF ~made.ok THEN mkdirFailed
        ELSE IF existsSync(fs, made.dirs, targetFile)
        THEN Skipped(fs, made.dirs, "none")
        ELSE IF ~(granted /\ RenamePossible(fs, made.dirs, filePath, targetFile))
        THEN RenameFailed(fs, made.dirs)
        ELSE [files |-> Rename(fs, filePath, targetFile), dirs |-> made.dirs,
              processed |-> 1, skipped |-> 0, thrown |-> "none", logged |-> "none"]

\* main.ts, organizeFiles: the iteration once the file's date is read
OrganizeFileCreationDated(fs, ds, filePath, granted, fileDate, target) ==
    IF ~fileDate.ok THEN Skipped(fs, ds, fileDate.error)
    ELSE IF ~target.ok THEN Skipped(fs, ds, target.error)
    ELSE IF Dirname(filePath) = target.value THEN Skipped(fs, ds, "none")
    ELSE MoveInto(fs, ds, filePath, target.value, granted, Skipped(fs, ds, "mkdir failed"))

\* main.ts, organizeFiles: one iteration of the loop over allFiles
OrganizeFileCreation(fs, ds, filePath, granted) ==
    IF ~shouldOrganizeFileCreation(Basename(filePath)) THEN Skipped(fs, ds, "none")
    ELSE IF isFileInOrganizedDirectory(filePath, rootDir) THEN Skipped(fs, ds, "none")
    ELSE OrganizeFileCreationDated(
             fs, ds, filePath, granted,
             getFileDateFromCreationTime(fs[filePath]),
             getTargetPathFixed(rootDir, getFileDateFromCreationTime(fs[filePath]).value))

\* a variant of OrganizeFileByNameDated that passes over a file already in
\* its target directory without counting it
OrganizeFileByNameDatedUncounted(fs, ds, fullPath, granted, organizable, date, target) ==
    IF ~organizable.ok THEN Thrown(fs, ds, organizable.error)
    ELSE IF ~organizable.value THEN Skipped(fs, ds, "none")
    ELSE IF ~date.ok THEN Thrown(fs, ds, date.error)
    ELSE IF date.isNull THEN Skipped(fs, ds, "none")
    ELSE IF ~target.ok THEN Thrown(fs, ds, target.error)
    ELSE IF Dirname(fullPath) = target.value
    THEN [Skipped(fs, ds, "none") EXCEPT !.skipped = 0]
    ELSE MoveInto(fs, ds, fullPath, target.value, granted, Thrown(fs, ds, "mkdir failed"))

\* part_000, organizeFiles: the iteration once the name is classified and
\* its date parsed
OrganizeFileByNameDated(fs, ds, fullPath, granted, organizable, date, target) ==
    IF ~organizable.ok THEN Thrown(fs, ds, organizable.error)
    ELSE IF ~organizable.value THEN Skipped(fs, ds, "none")
    ELSE IF ~date.ok THEN Thrown(fs, ds, date.error)
    ELSE IF date.isNull THEN Skipped(fs, ds, "none")
    ELSE IF ~target.ok THEN Thrown(fs, ds, target.error)
    ELSE IF Dirname(fullPath) = target.value THEN Skipped(fs, ds, "none")
    ELSE MoveInto(fs, ds, fullPath, target.value, granted, Thrown(fs, ds, "mkdir failed"))

\* part_000, organizeFiles: one iteration of the loop over a file
OrganizeFileByName(fs, ds, fullPath, granted) ==
    OrganizeFileByNameDated(
        fs, ds, fullPath, granted,
        shouldOrganizeFileByName(Basename(fullPath)),
        parseFileDate(Basename(fullPath)),
        getTargetPathFixed(rootDir, parseFileDate(Basename(fullPath)).value))

OrganizeFile(v, fs, ds, path, granted) ==
    IF v = "creation" THEN OrganizeFileCreation(fs, ds, path, granted)
    ELSE OrganizeFileByName(fs, ds, path, granted)

\* the lists organizeFiles may iterate over in directory dir
Listings(v, fs, ds, dir) ==
    IF v = "creation" THEN findAllFiles(fs, ds, dir)
    ELSE Orders(readdir(fs, ds, dir))

\* main.ts: assertYearDirectoryStructure(resolvedDir)
ValidateSeq ==
    /\ pc = "validate"
    /\ IF assertYearDirectoryStructure(dirs)
       THEN /\ pc' = "consolidate"
            /\ UNCHANGED << error, exitCode, log >>
       ELSE /\ pc' = AfterThrow
            /\ error' = "AssertionError"
            /\ exitCode' = RejectedExitCode
            /\ log' = Logged("AssertionError")
    /\ UNCHANGED << files, dirs, now, entries, cursor, operations, executed,
                    totalConsolidated, run, files0, dirs0, prevPlanSize, probe,
                    variant, targetDir, stack, totalErrors, results >>

\* main.ts, consolidateUnorganizedDirectories: one iteration over an entry
\* of an unorganized directory; thrown is caught by the try of that directory
ConsolidateEntry(fs, ds, filePath, granted) ==
    LET filename == Basename(filePath)
        yearPath == Dirname(Dirname(filePath))
        Same(ds2) == [files |-> fs, dirs |-> ds2, consolidated |-> 0, thrown |-> "none"]
        Caught(ds2, e) == [files |-> fs, dirs |-> ds2, consolidated |-> 0, thrown |-> e]
    IN  IF filePath \notin DOMAIN fs THEN Same(ds)
        ELSE IF ~shouldOrganizeFileCreation(filename) THEN Same(ds)
        ELSE
          LET fileDate == getFileDateFromCreationTime(fs[filePath])
              targetDirOfFile == Join(<<yearPath, MONTH_NAMES[fileDate.value.month]>>)
              targetFile == Join(<<targetDirOfFile, filename>>)
              made == ensureDir(fs, ds, targetDirOfFile)
          IN  IF ~fileDate.ok THEN Caught(ds, fileDate.error)
              ELSE IF ~made.ok THEN Caught(ds, "mkdir failed")
              ELSE IF existsSync(fs, made.dirs, targetFile) THEN Same(made.dirs)
              ELSE IF ~(granted /\ RenamePossible(fs, made.dirs, filePath, targetFile))
              THEN Caught(made.dirs, "rename failed")
              ELSE [files |-> Rename(fs, filePath, targetFile), dirs |-> made.dirs,
                    consolidated |-> 1, thrown |-> "none"]

NotEmpty == "Directory is not empty"

\* consolidateUnorganizedDirectories: the unorganized directories of the
\* year directories, in the order the two readdir calls give
ConsolidateStart ==
    /\ pc = "consolidate"
    /\ \E order \in Orders(UNION { findUnorganizedDirectories(dirs, y) : y \in YearDirs(dirs) }) :
         entries' = order
    /\ cursor' = 1
    /\ pc' = "consolidating"
    /\ totalConsolidated' = 0
    /\ totalErrors' = 0
    /\ UNCHANGED << files, dirs, now, error, operations, executed, run, files0, dirs0,
                    prevPlanSize, probe, exitCode, variant, targetDir, stack, results,
                    log >>

\* readdir(unorganizedPath)
ConsolidateEnter ==
    /\ pc = "consolidating"
    /\ stack = <<>>
    /\ cursor <= Len(entries)
    /\ \E listing \in Orders(readdir(files, dirs, entries[cursor])) :
         stack' = << Frame(entries[cursor], listing) >>
    /\ UNCHANGED << files, dirs, now, pc, error, entries, cursor, operations, executed,
                    totalConsolidated, run, files0, dirs0, prevPlanSize, probe, exitCode,
                    variant, targetDir, totalErrors, results, log >>

\* one entry of the unorganized directory
ConsolidateFile ==
    /\ pc = "consolidating"
    /\ stack # <<>>
    /\ Top.i <= Len(Top.listing)
    /\ \E granted \in BOOLEAN :
         \E r \in { ConsolidateEntry(files, dirs, Top.listing[Top.i], granted) } :
             /\ files' = r.files
             /\ dirs' = r.dirs
             /\ totalConsolidated' = totalConsolidated + r.consolidated
             /\ IF r.thrown # "none"
                THEN /\ log' = Logged(r.thrown)
                     /\ totalErrors' = totalErrors + 1
                     /\ stack' = <<>>
                     /\ cursor' = cursor + 1
                ELSE /\ stack' = [stack EXCEPT ![Len(stack)].i = @ + 1]
                     /\ UNCHANGED << log, totalErrors, cursor >>
    /\ UNCHANGED << now, pc, error, entries, operations, executed, run, files0, dirs0,
                    prevPlanSize, probe, exitCode, variant, targetDir, results >>

\* a variant of ConsolidateLeave that removes the directory without listing
\* it again
ConsolidateLeaveUnlisted ==
    /\ pc = "consolidating"
    /\ stack # <<>>
    /\ Top.i > Len(Top.listing)
    /\ dirs' = dirs \ {Top.dir}
    /\ stack' = <<>>
    /\ cursor' = cursor + 1
    /\ UNCHANGED << files, now, pc, error, entries, operations, executed,
                    totalConsolidated, run, files0, dirs0, prevPlanSize, probe, exitCode,
                    variant, targetDir, totalErrors, results, log >>

\* the directory's entries are done: rmdir when nothing remains, otherwise
\* the 'is not empty' error, which the catch of the same iteration prints
\* and counts
ConsolidateLeave ==
    /\ pc = "consolidating"
    /\ stack # <<>>
    /\ Top.i > Len(Top.listing)
    /\ IF readdir(files, dirs, Top.dir) = {}
       THEN \E granted \in BOOLEAN :
              IF granted
              THEN /\ dirs' = dirs \ {Top.dir}
                   /\ UNCHANGED << pc, error, exitCode, log, totalErrors >>
              ELSE /\ log' = Logged("rmdir failed")
                   /\ totalErrors' = totalErrors + 1
                   /\ UNCHANGED << dirs, pc, error, exitCode >>
       ELSE /\ log' = Logged(NotEmpty)
            /\ totalErrors' = totalErrors + 1
            /\ UNCHANGED << dirs, pc, error, exitCode >>
    /\ stack' = <<>>
    /\ cursor' = cursor + 1
    /\ UNCHANGED << files, now, entries, operations, executed, totalConsolidated, run,
                    files0, dirs0, prevPlanSize, probe, variant, targetDir, results >>

\* consolidateUnorganizedDirectories returns; main goes on to organizeFiles
ConsolidateReturn ==
    /\ pc = "consolidating"
    /\ stack = <<>>
    /\ cursor > Len(entries)
    /\ pc' = "organize"
    /\ UNCHANGED << files, dirs, now, error, entries, cursor, operations, executed,
                    totalConsolidated, run, files0, dirs0, prevPlanSize, probe, exitCode,
                    variant, targetDir, stack, totalErrors, results, log >>

\* main calls organizeFiles(resolvedDir): findAllFiles (main.ts), readdir
\* (part_000)
OrganizeEnter ==
    /\ pc = "organize"
    /\ stack = <<>>
    /\ \E listing \in Listings(variant, files, dirs, rootDir) :
         stack' = << Frame(rootDir, listing) >>
    /\ UNCHANGED << files, dirs, now, pc, error, entries, cursor, operations, executed,
                    totalConsolidated, run, files0, dirs0, prevPlanSize, probe, exitCode,
                    variant, targetDir, totalErrors, results, log >>

\* part_000: the entry is a directory, organizeFiles calls itself on it
OrganizeDescend ==
    /\ pc = "organize"
    /\ stack # <<>>
    /\ Top.i <= Len(Top.listing)
    /\ Top.listing[Top.i] \in dirs
    /\ \E listing \in Listings(variant, files, dirs, Top.listing[Top.i]) :
         stack' = Append([stack EXCEPT ![Len(stack)].i = @ + 1],
                         Frame(Top.listing[Top.i], listing))
    /\ UNCHANGED << files, dirs, now, pc, error, entries, cursor, operations, executed,
                    totalConsolidated, run, files0, dirs0, prevPlanSize, probe, exitCode,
                    variant, targetDir, totalErrors, results, log >>

\* one iteration over a file; an error thrown out of the loop reaches the
\* catch of part_000's organizeFiles (process.exit(1)) or rejects main
OrganizeStep ==
    /\ pc = "organize"
    /\ stack # <<>>
    /\ Top.i <= Len(Top.listing)
    /\ Top.listing[Top.i] \notin dirs
    /\ \E granted \in BOOLEAN :
         \E r \in { OrganizeFile(variant, files, dirs, Top.listing[Top.i], granted) } :
             /\ files' = r.files
             /\ dirs' = r.dirs
             /\ log' = Logged(r.logged)
             /\ IF r.thrown # "none"
                THEN /\ error' = r.thrown
                     /\ IF variant = "filename"
                        THEN pc' = "exited" /\ exitCode' = 1
                        ELSE pc' = AfterThrow /\ exitCode' = RejectedExitCode
                     /\ UNCHANGED stack
                ELSE /\ stack' = [stack EXCEPT ![Len(stack)].i = @ + 1,
                                               ![Len(stack)].processed = @ + r.processed,
                                               ![Len(stack)].skipped = @ + r.skipped]
                     /\ UNCHANGED << pc, error, exitCode >>
    /\ UNCHANGED << now, entries, cursor, operations, executed, totalConsolidated, run,
                    files0, dirs0, prevPlanSize, probe, variant, targetDir, totalErrors,
                    results >>

\* organizeFiles returns its counts: to the call that descended, or to main,
\* which prints the summary and ends
OrganizeReturn ==
    /\ pc = "organize"
    /\ stack # <<>>
    /\ Top.i > Len(Top.listing)
    /\ IF Len(stack) > 1
       THEN /\ stack' = [SubSeq(stack, 1, Len(stack) - 1) EXCEPT
                           ![Len(stack) - 1].processed = @ + Top.processed,
                           ![Len(stack) - 1].skipped = @ + Top.skipped]
            /\ UNCHANGED << pc, exitCode, results >>
       ELSE /\ stack' = <<>>
            /\ results' = [returned |-> TRUE, processed |-> Top.processed,
                           skipped |-> Top.skipped]
            /\ pc' = "done"
            /\ exitCode' = 0
    /\ UNCHANGED << files, dirs, now, error, entries, cursor, operations, executed,
                    totalConsolidated, run, files0, dirs0, prevPlanSize, probe, variant,
                    targetDir, totalErrors, log >>

SeqInit == StartOn({"creation", "filename"})

SeqNext ==
    \/ Startup
    \/ ValidateSeq
    \/ ConsolidateStart
    \/ ConsolidateEnter
    \/ ConsolidateFile
    \/ ConsolidateLeave
    \/ ConsolidateReturn
    \/ OrganizeEnter
    \/ OrganizeDescend
    \/ OrganizeStep
    \/ OrganizeReturn

SpecSeq == SeqInit /\ [][SeqNext]_vars

(***************************************************************************)
(* The summary main of the plan/execute variant prints.                    *)
(***************************************************************************)
\* const totalOps = MAX_OPS || operations.plannedMoves.size: the left operand
\* unless it is 0
totalOps(plan) == IF MAX_OPS # 0 THEN MAX_OPS ELSE Len(plan.plannedMoves)

(***************************************************************************)
(* The two variants that go by creation time, the plan/execute variant     *)
(* (src/unnamed/part_001) and src/main.ts, each run once from its command  *)
(* line to its end.                                                        *)
(***************************************************************************)
CreationInit == StartOn({"plan", "creation"})

CreationNext ==
    \/ Startup
    \/ Validate
    \/ Scan
    \/ PlanStep
    \/ PlanReturn
    \/ ExecStep
    \/ ExecReturn
    \/ ValidateSeq
    \/ ConsolidateStart
    \/ ConsolidateEnter
    \/ ConsolidateFile
    \/ ConsolidateLeave
    \/ ConsolidateReturn
    \/ OrganizeEnter
    \/ OrganizeStep
    \/ OrganizeReturn

SpecCreation == CreationInit /\ [][CreationNext]_vars

(***************************************************************************)
(* The plan/execute variant's classifier, path planner and planner on      *)
(* their own, applied to one scanned file.                                 *)
(***************************************************************************)
DestInit ==
    /\ NoRun
    /\ now \in NowPool
    /\ \E name \in ProbeFilenames \ {""}, parentPath \in DirPool, birthtime \in BirthPool :
         probe = [fn |-> "destination", called |-> FALSE,
                  fileStat |-> [stat |-> [birthtime |-> birthtime],
                                dirent |-> [parentPath |-> parentPath, name |-> name,
                                            isFile |-> TRUE]],
                  accepted |-> FALSE,
                  date |-> Throw("pending"),
                  target |-> Throw("pending"),
                  planned |-> [plan |-> EmptyPlan, error |-> "pending"]]

ApplyPlanToOneFile ==
    /\ probe.fn = "destination"
    /\ ~probe.called
    /\ probe' = [probe EXCEPT
                   !.called = TRUE,
                   !.accepted = shouldOrganizeFile(probe.fileStat.dirent.name),
                   !.date = getFileDateFromCreationTime(probe.fileStat.stat),
                   !.target = getTargetPath(probe.fileStat, now),
                   !.planned = planOperations(<<probe.fileStat>>, now)]
    /\ UNCHANGED mainVars

DestNext == ApplyPlanToOneFile

SpecDest == DestInit /\ [][DestNext]_vars

(***************************************************************************)
(* Properties of the plan/execute variant (specification Spec).            *)
(***************************************************************************)
\* planOperations has returned its plan to main in this run
PlanReturned == pc \in {"exec", "done"}

\* the run has reached planOperations and planOperations is over
PlanningOver == pc \in {"exec", "done", "failed"} /\ entries # <<>>

\* fileStat is a file the classifier accepts and whose destination resolves
Resolves(fileStat, clock) ==
    /\ fileStat.dirent.isFile
    /\ shouldOrganizeFile(fileStat.dirent.name)
    /\ getTargetPath(fileStat, clock).ok

\* two organizable files of the scan resolve to the same destination path
Collide(fileStats, clock) ==
    \E i, j \in 1..Len(fileStats) :
        /\ i < j
        /\ Resolves(fileStats[i], clock)
        /\ Resolves(fileStats[j], clock)
        /\ getTargetPath(fileStats[i], clock).value = getTargetPath(fileStats[j], clock).value

\* ... and no file of the scan stands at that path
CollideOnFreePath(fileStats, clock) ==
    \E i, j \in 1..Len(fileStats) :
        /\ i < j
        /\ Resolves(fileStats[i], clock)
        /\ Resolves(fileStats[j], clock)
        /\ getTargetPath(fileStats[i], clock).value = getTargetPath(fileStats[j], clock).value
        /\ getTargetPath(fileStats[i], clock).value \notin existingFileMap(fileStats)

\* every file of the scan the classifier accepts passes the planner's schemas
AllValid(fileStats, clock) ==
    \A i \in 1..Len(fileStats) :
        (fileStats[i].dirent.isFile /\ shouldOrganizeFile(fileStats[i].dirent.name))
            => /\ RootDirPathSchema(FullPath(fileStats[i]))
               /\ getTargetPath(fileStats[i], clock).ok

\* a map holds each destination once, as key and as the move's dest
InjectiveMap(map) ==
    \A i, j \in 1..Len(map) :
        (map[i].key = map[j].key \/ map[i].value.dest = map[j].value.dest) => i = j

\* C1 (as claimed): once a run has completed with a plan no larger than
\* MAX_OPS, the next scan and plan of the resulting tree, in the same calendar
\* year and with no other change of the tree, is empty.
C1_SecondPlanEmpty ==
    (run >= 2 /\ PlanReturned /\ prevPlanSize >= 0 /\ prevPlanSize <= MAX_OPS)
        => /\ Len(operations.plannedOps) = 0
           /\ Len(operations.plannedMoves) = 0

C3_DuplicateLeavesTreeUntouched ==
    error = DuplicateDestination => files = files0 /\ dirs = dirs0

\* C3 witness: a run ended by a duplicate destination
C3_Witness ==
    /\ pc = "failed"
    /\ error = DuplicateDestination
    /\ cursor <= Len(entries)

\* executeOperations is over: it returned, or it threw
ExecutorOver ==
    \/ pc = "done"
    \/ pc = "failed" /\ error \in {"rename failed", "mkdir failed", "rmdir failed"}

\* the files the first n operations of the plan leave at their destinations,
\* the sources of the others where they were
FirstMoved(n) ==
    \A i \in 1..Len(operations.plannedOps) :
        LET op == operations.plannedOps[i].value
        IN  IF i <= n
            THEN op.dest \in DOMAIN files /\ op.src \notin DOMAIN files
            ELSE op.src \in DOMAIN files /\ op.dest \notin DOMAIN files

\* C4 (as claimed): when executeOperations is over it has executed exactly the
\* first min(n, MAX_OPS) entries of the plan, and the other sources are where
\* they were.
C4_ExecutesFirstMin ==
    ExecutorOver
        => /\ executed = Min(Len(operations.plannedOps), MAX_OPS)
           /\ totalConsolidated = Min(Len(operations.plannedOps), MAX_OPS)
           /\ FirstMoved(Min(Len(operations.plannedOps), MAX_OPS))

\* C5: a step that changes the tree is a step of the executor, taken after
\* planOperations consumed the whole scan; and main's phases follow one
\* another in the order validate, scan, plan, execute.
C5_PlanBeforeMutation ==
    [][ /\ (files' # files \/ dirs' # dirs)
            => (pc = "exec" /\ cursor > Len(entries))
        /\ pc' # pc
            => << pc, pc' >> \in { <<"main", "scan">>, <<"scan", "plan">>,
                                   <<"plan", "exec">>, <<"exec", "done">>,
                                   <<"main", "failed">>, <<"plan", "failed">>,
                                   <<"exec", "failed">>, <<"done", "main">> }
      ]_vars

\* C5 witness: the executor has changed the tree
C5_Witness ==
    /\ pc = "exec"
    /\ executed = 1
    /\ files # files0

\* C6: no step of planOperations, whether it goes on, returns or raises,
\* changes the files or the directories on disk.
C6_PlanningLeavesTree ==
    [][ pc = "plan" => (files' = files /\ dirs' = dirs) ]_vars

\* C6 witness: planOperations has returned a plan of two moves
C6_Witness ==
    /\ pc = "exec"
    /\ executed = 0
    /\ Len(operations.plannedOps) = 2
    /\ files = files0

\* the scanned file a planned move takes
SourceInfo(op) == CHOOSE f \in { entries[i] : i \in 1..Len(entries) } : FullPath(f) = op.src

\* C9 (as claimed): a file dated 2020-2023 is planned into
\* <root>/_YEAR/MM MonthName/, a file dated 2024 or later into
\* <root>/MM MonthName/, whatever the current year.
C9_FixedRangePlanned ==
    \A i \in 1..Len(operations.plannedOps) :
        LET op == operations.plannedOps[i].value
            f == SourceInfo(op)
            y == f.stat.birthtime.year
            monthDir == MONTH_NAMES[f.stat.birthtime.month]
        IN  /\ (y >= 2020 /\ y <= 2023)
                => op.dest = Join(<<rootDir, "_" \o DecStr(y), monthDir, f.dirent.name>>)
            /\ y >= 2024
                => op.dest = Join(<<rootDir, monthDir, f.dirent.name>>)


(***************************************************************************)
(* Properties of the planner on its own (specification SpecDet).           *)
(***************************************************************************)
\* C7 (as claimed): two calls of planOperations on the same list of FileInfo
\* records give the same outcome (the same plan in the same insertion order,
\* or the same error), whatever else differs between the calls.
C7_SameListSamePlan ==
    (probe.fn = "planOperations" /\ probe.called) => probe.first = probe.second

(***************************************************************************)
(* Properties of the path planner (specification SpecPath).                *)
(***************************************************************************)
\* the path planner was applied to a date ParsedDateSchema accepts
PathApplied ==
    /\ probe.fn = "getTargetPath"
    /\ probe.called
    /\ ParsedDateSchema(probe.date)

\* C8: in the fixed-range variants, for a valid date of 2020-2023 the result
\* is baseDir/_<year>/<month entry>, and for a valid date of 2024 or later it
\* is baseDir/<month entry>, with no _<year> segment.
C8_YearBifurcation ==
    PathApplied =>
        LET y == probe.date.year
            parts == SplitSlash(probe.fixed.value)
            baseParts == SplitSlash(probe.baseDir)
            monthEntry == MONTH_NAMES[probe.date.month]
        IN  /\ probe.fixed.ok
            /\ (y >= 2020 /\ y <= 2023)
                 => parts = baseParts \o << "_" \o DecStr(y), monthEntry >>
            /\ y >= 2024
                 => /\ parts = baseParts \o << monthEntry >>
                    /\ \A i \in 1..Len(parts) : ~StartsWith(parts[i], "_")

\* C8 witness: the planner was applied to the last day of the archival range
C8_Witness ==
    /\ PathApplied
    /\ probe.date = [year |-> 2023, month |-> 12, day |-> 31]
    /\ probe.fixed.value = "/shots/_2023/12 December"

\* the full English month names, in calendar order
EnglishMonthNames ==
    << "January", "February", "March", "April", "May", "June", "July",
       "August", "September", "October", "November", "December" >>

\* the month number as two digits, zero-padded
TwoDigits(m) == IF m < 10 THEN "0" \o DecStr(m) ELSE DecStr(m)

C11_ClassifierTotal ==
    (probe.fn = "filename" /\ probe.classified)
        => /\ probe.byExtension.ok /\ probe.byExtension.value \in BOOLEAN
           /\ probe.byName.ok /\ probe.byName.value \in BOOLEAN

(***************************************************************************)
(* Further properties of the plan/execute variant (specification Spec).    *)
(***************************************************************************)
\* the classifier rule as the documentation states it: a marker and a media
\* extension, or a leading YYYY-MM-DD_ timestamp
MarkedMediaOrTimestamp(name) ==
    \/ /\ isScreenCapture(ToLowerCase(name))
       /\ \E i \in 1..Len(fileExts) : EndsWith(ToLowerCase(name), fileExts[i])
    \/ hasTimestampPattern(name)

\* C12 (as claimed): shouldOrganizeFile(name) is true exactly when the
\* lowercased name holds a screenshot / screen-recording marker and the name
\* ends with a media extension, or the name starts with a YYYY-MM-DD_
\* timestamp; so no planned move takes a file that has a media extension but
\* neither marker nor timestamp.
C12_ClassifierRule ==
    /\ \A i \in 1..Len(entries) :
           entries[i].dirent.isFile
               => (shouldOrganizeFile(entries[i].dirent.name)
                       <=> MarkedMediaOrTimestamp(entries[i].dirent.name))
    /\ \A i \in 1..Len(operations.plannedOps) :
           MarkedMediaOrTimestamp(Basename(operations.plannedOps[i].value.src))

\* path lies under the root directory
UnderRoot(path) == StartsWith(path, rootDir \o "/")

\* dest is <root>/_<year>/<MM MonthName>/<filename> or
\* <root>/<MM MonthName>/<filename>
HasDestShape(dest, filename) ==
    /\ UnderRoot(dest)
    /\ LET parts == SplitSlash(SubSeq(dest, Len(rootDir) + 2, Len(dest)))
           IsMonthName(part) == \E m \in 1..12 : MONTH_NAMES[m] = part
       IN  \/ /\ Len(parts) = 2
              /\ IsMonthName(parts[1])
              /\ parts[2] = filename
           \/ /\ Len(parts) = 3
              /\ IsYearDirName(parts[1])
              /\ IsMonthName(parts[2])
              /\ parts[3] = filename

\* every move of the plan, as built so far, is confined and shaped
PlanConfined ==
    \A i \in 1..Len(operations.plannedOps) :
        LET op == operations.plannedOps[i].value
        IN  /\ operations.plannedOps[i].key = op.dest
            /\ UnderRoot(op.src)
            /\ HasDestShape(op.dest, Basename(op.src))

\* a step that renames takes a file from under the root to a shaped path
RenameConfined ==
    files' # files
        => /\ \A p \in DOMAIN files \ DOMAIN files' : UnderRoot(p)
           /\ \A p \in DOMAIN files' \ DOMAIN files :
                  \E q \in DOMAIN files \ DOMAIN files' : HasDestShape(p, Basename(q))

\* C13: every move of a plan and every rename executeOperations issues has
\* its source and its destination under the root, and the destination is
\* <root>/_<year>/<MM MonthName>/<filename> or <root>/<MM MonthName>/<filename>.
C13_RootConfinedShapes == [](PlanConfined) /\ [][RenameConfined]_vars

\* C13 witness: the executor has renamed a file into a year directory
C13_Witness ==
    /\ pc = "exec"
    /\ executed = 1
    /\ "/shots/_2025/06 June/a.png" \in DOMAIN files
    /\ "/shots/_2025/06 June/a.png" \notin DOMAIN files0

\* C15 (as claimed): a run ended by a duplicate destination or by a failed
\* directory-structure assertion ends the process with a non-zero exit code.
C15_FatalExitsNonZero ==
    (pc = "failed" /\ error \in {DuplicateDestination, "AssertionError"})
        => exitCode > 0

\* C17 (as claimed): a rename that fails in executeOperations is skipped: it
\* does not end executeOperations, which goes on with the operations left.
C17_FailedRenameSkipped ==
    error = "rename failed" => pc \in {"exec", "done"}

\* C19 (as claimed): getFileDateFromCreationTime returns a date for the stat
\* of every scanned file, whatever its year, and planOperations is never
\* ended by the validation of a file's timestamp.
C19_TimestampAlwaysResolves ==
    /\ \A i \in 1..Len(entries) :
           entries[i].dirent.isFile => getFileDateFromCreationTime(entries[i].stat).ok
    /\ ~(pc = "failed" /\ error = "ZodError")

(***************************************************************************)
(* Properties of the command line (specification SpecCli).                 *)
(***************************************************************************)
\* the run was started with no argument or with a directory that is not there
BadArgument == targetDir = "" \/ ~existsSync(files0, dirs0, resolve(targetDir))

\* C14 (as claimed): in every variant, a run started with no directory
\* argument, or with a directory that does not exist, changes nothing on disk
\* and ends with exit code 1.
C14_BadArgumentExitsOne ==
    (pc # "start" /\ BadArgument)
        => /\ exitCode = 1
           /\ files = files0
           /\ dirs = dirs0

(***************************************************************************)
(* Properties of the sequential variants (specification SpecSeq).          *)
(***************************************************************************)
\* organizeFiles is about to iterate over a file
AtFile ==
    /\ pc = "organize"
    /\ stack # <<>>
    /\ Top.i <= Len(Top.listing)
    /\ Top.listing[Top.i] \in DOMAIN files

\* ... and the iteration gets as far as calling rename
ReachesRename == AtFile /\ OrganizeFile(variant, files, dirs, Top.listing[Top.i], TRUE).processed = 1

\* the step counts the file as skipped and leaves the loop at the next entry
SkipsAndGoesOn ==
    /\ pc' = "organize"
    /\ exitCode' = exitCode
    /\ Len(stack') = Len(stack)
    /\ stack'[Len(stack)].listing = Top.listing
    /\ stack'[Len(stack)].i = Top.i + 1
    /\ stack'[Len(stack)].skipped = Top.skipped + 1
    /\ stack'[Len(stack)].processed = Top.processed

\* C16: in organizeFiles of main.ts and part_000, a step whose rename fails
\* adds one to skipped, leaves processed as it is and leaves the loop at the
\* next entry of the same listing; and a run that ends normally has returned
\* counts that cover every file of the tree.
C16_FailedRenameCounted ==
    /\ [][ (ReachesRename /\ files' = files) => SkipsAndGoesOn ]_vars
    /\ [](pc = "done" => /\ results.returned
                         /\ results.processed + results.skipped >= Cardinality(DOMAIN files)
                         /\ variant = "creation"
                                => results.processed + results.skipped
                                       = Cardinality(DOMAIN files))

\* C16 witness: a run in which one rename failed and another file was moved
\* has returned its counts
C16_Witness ==
    /\ pc = "done"
    /\ log = {"rename failed"}
    /\ results.returned
    /\ results.processed = 1
    /\ results.skipped = 1

\* a pattern of parseFileDate matches name and the date it captures is out
\* of the documented ranges
CapturesOutOfRange(name) ==
    LET d == parseFileDate(name)
    IN  /\ FilenameSchema(name)
        /\ ~d.isNull
        /\ \/ d.value.year < 2020 \/ d.value.year > 2030
           \/ d.value.month < 1 \/ d.value.month > 12
           \/ d.value.day < 1 \/ d.value.day > 31

\* C18 (as claimed): when organizeFiles of the filename variant iterates over
\* an organizable file whose name captures an out-of-range date, parseFileDate
\* returns null, the file is counted as skipped, nothing is moved and the loop
\* goes on with the next entry.
C18_OutOfRangeIsNoMatch ==
    [][ ( /\ variant = "filename"
          /\ AtFile
          /\ shouldOrganizeFileByName(Basename(Top.listing[Top.i])).value
          /\ CapturesOutOfRange(Basename(Top.listing[Top.i])) )
        => /\ SkipsAndGoesOn
           /\ files' = files
      ]_vars

\* a directory was found non-empty where its removal was due
NotEmptyFound == NotEmpty \in log

\* C20 (as claimed): once a directory selected for removal is found to hold
\* entries, the run performs no further move or removal and does not go on to
\* the next directory or to organizeFiles.
C20_NotEmptyStopsRun ==
    [][ NotEmptyFound
        => /\ files' = files
           /\ dirs' = dirs
           /\ pc' \notin {"organize", "done"}
      ]_vars

(***************************************************************************)
(* The layout a run leaves (specification SpecSeq).                      *)
(***************************************************************************)
\* the directory the path rule gives for a date: <root>/_<year>/<MM MonthName>
\* for the archival years 2020-2023, <root>/<MM MonthName> otherwise
RuleDir(date) ==
    IF date.year >= 2020 /\ date.year <= 2023
    THEN Join(<<rootDir, "_" \o DecStr(date.year), MONTH_NAMES[date.month]>>)
    ELSE Join(<<rootDir, MONTH_NAMES[date.month]>>)

\* the files the run has moved: they stand where no file stood at the start
MovedFiles == DOMAIN files \ DOMAIN files0

\* C21 (as claimed): after a run of main.ts that ended with no error, every
\* file the run moved stands in the directory the path rule gives for the
\* file's own creation date.
C21_MovedFilesInRuleDir ==
    (variant = "creation" /\ pc = "done" /\ totalErrors = 0 /\ log = {})
        => \A p \in MovedFiles : Dirname(p) = RuleDir(files[p].birthtime)

(***************************************************************************)
(* The summary of the plan/execute variant (specification Spec).         *)
(***************************************************************************)
\* C22 (as claimed): when a run of the plan/execute variant has ended, the
\* 'Total ops' it reports is the number of operations executeOperations
\* executed, which is min(plan size, MAX_OPS), and the executor's returned
\* count is the number of renames it completed.
C22_SummaryReportsExecuted ==
    pc = "done"
        => /\ executed = Min(Len(operations.plannedOps), MAX_OPS)
           /\ totalOps(operations) = executed
           /\ totalConsolidated = Cardinality(MovedFiles)

(***************************************************************************)
(* organizeFiles of the sequential variants (specification SpecSeq).     *)
(***************************************************************************)
\* the target directory organizeFiles computes for the file at path p
TargetOf(v, fs, p) ==
    IF v = "creation"
    THEN getTargetPathFixed(rootDir, getFileDateFromCreationTime(fs[p]).value)
    ELSE getTargetPathFixed(rootDir, parseFileDate(Basename(p)).value)

\* the parent directory of the file at p is its computed target directory
InPlace(v, fs, p) == TargetOf(v, fs, p).ok /\ Dirname(p) = TargetOf(v, fs, p).value

\* C23: in organizeFiles of main.ts and part_000, the step over a file whose
\* parent directory is its computed target directory renames nothing, creates
\* no directory, adds one to skipped and nothing to processed, and goes on
\* with the next entry.
C23_InPlaceSkippedOnce ==
    [][ (AtFile /\ InPlace(variant, files, Top.listing[Top.i]))
        => /\ SkipsAndGoesOn
           /\ files' = files
           /\ dirs' = dirs
      ]_vars

\* C23 witness: the filename variant has gone down into a month directory and
\* passed over the file that stands there in place
C23_Witness ==
    /\ variant = "filename"
    /\ pc = "organize"
    /\ Len(stack) = 2
    /\ Top.i = 2
    /\ InPlace(variant, files, Top.listing[1])
    /\ Top.skipped = 1
    /\ Top.processed = 0
    /\ files = files0
    /\ dirs = dirs0

\* the path organizeFiles would rename the file at p to
TargetFileOf(v, fs, p) == Join(<<TargetOf(v, fs, p).value, Basename(p)>>)

\* a step that changes the files renames one of them to a path where nothing
\* stood: every file that stays is as it was, and as many files remain
RenamesOntoFreePath ==
    files' # files
        => /\ \A p \in DOMAIN files \cap DOMAIN files' : files'[p] = files[p]
           /\ \A p \in DOMAIN files' \ DOMAIN files : ~existsSync(files, dirs, p)
           /\ Cardinality(DOMAIN files') = Cardinality(DOMAIN files)

\* organizeFiles is at a file whose target path exists
AtFileWithTarget ==
    /\ AtFile
    /\ TargetOf(variant, files, Top.listing[Top.i]).ok
    /\ existsSync(files, dirs, TargetFileOf(variant, files, Top.listing[Top.i]))

\* C24: in main.ts and part_000 no step renames onto a path that exists; the
\* step of organizeFiles over a file whose target exists leaves source and
\* target as they are and adds one to skipped; and the number of files under
\* the root never changes.
C24_NoOverwriteNoLoss ==
    /\ [][ /\ RenamesOntoFreePath
           /\ AtFileWithTarget => (files' = files /\ SkipsAndGoesOn)
        ]_vars
    /\ [](Cardinality(DOMAIN files) = Cardinality(DOMAIN files0))

\* C24 witness: a run has ended with a loose file and the file of the same
\* name in its target directory both where they were
C24_Witness ==
    /\ pc = "done"
    /\ files = files0
    /\ results.skipped >= 2
    /\ \E p \in DOMAIN files :
           /\ TargetOf(variant, files, p).ok
           /\ Dirname(p) # TargetOf(variant, files, p).value
           /\ TargetFileOf(variant, files, p) \in DOMAIN files

(***************************************************************************)
(* Properties of the variants that go by creation time (specification      *)
(* SpecCreation).                                                          *)
(***************************************************************************)
\* a _YYYY directory under the root holds no directory, or more than 24
BadYearDir(ds) ==
    \E y \in ds :
        /\ Dirname(y) = rootDir
        /\ IsYearDirName(Basename(y))
        /\ LET n == Cardinality({ d \in ds : Dirname(d) = y })
           IN  n = 0 \/ n > 24

\* C25: in the plan/execute variant and in main.ts, a step that creates,
\* renames or removes anything is taken after assertYearDirectoryStructure
\* has passed; on a tree it rejects, the files and directories stay as they
\* were when the run started.
C25_ValidationPrecedesMutation ==
    /\ [](BadYearDir(dirs0) => (files = files0 /\ dirs = dirs0))
    /\ [][ (files' # files \/ dirs' # dirs)
           => /\ pc \in {"exec", "consolidating", "organize"}
              /\ ~BadYearDir(dirs0)
        ]_vars

\* C25 witness: main.ts was started on a tree with an empty year directory
\* and a loose file it would otherwise move, and has ended at the assertion
C25_Witness ==
    /\ variant = "creation"
    /\ pc = "failed"
    /\ error = "AssertionError"
    /\ BadYearDir(dirs0)
    /\ \E p \in DOMAIN files :
           /\ Dirname(p) = rootDir
           /\ shouldOrganizeFileCreation(Basename(p))
           /\ files[p].birthtime.year = 2023
    /\ files = files0
    /\ dirs = dirs0

(***************************************************************************)
(* The counts of the sequential variants (specification SpecSeq).        *)
(***************************************************************************)
\* the figure main prints as 'Total files examined'
TotalFilesExamined ==
    results.processed + results.skipped
        + (IF variant = "creation" THEN totalConsolidated ELSE 0)

\* C26 (as claimed): when a run of main.ts or part_000 has ended, here one
\* in which nothing failed, the figure printed as 'Total files examined' is
\* the number of files that were under the root when the run started,
\* whatever order the listings came in.
C26_ExaminedCountsEachFileOnce ==
    (pc = "done" /\ results.returned /\ log = {} /\ totalErrors = 0)
        => TotalFilesExamined = Cardinality(DOMAIN files0)

(***************************************************************************)
(* Further properties of the planner (specification Spec).                 *)
(***************************************************************************)
\* the full paths of the files of the scan
ScannedFilePaths ==
    { FullPath(entries[i]) : i \in { j \in 1..Len(entries) : entries[j].dirent.isFile } }

\* the scanned file f resolves to a path where a file of the scan stands
DestinationTaken(f) ==
    /\ Resolves(f, now)
    /\ getTargetPath(f, now).value \in ScannedFilePaths

\* the plan holds a move of the scanned file f
Planned(f) ==
    \E i \in 1..Len(operations.plannedOps) :
        operations.plannedOps[i].value.src = FullPath(f)

\* C27: no move of a plan, while it is built and when it is returned, has a
\* destination that is the full path of a file of the scan; a file whose
\* destination is such a path gets no operation; and the assertion loop after
\* planning never raises.
C27_NoMoveOntoScannedFile ==
    /\ operations.plannedOps # <<>> =>
           \A scanned \in { ScannedFilePaths } :
               \A i \in 1..Len(operations.plannedOps) :
                   operations.plannedOps[i].value.dest \notin scanned
    /\ \A j \in 1..Len(entries) : Planned(entries[j]) => ~DestinationTaken(entries[j])
    /\ (pc = "failed" /\ error = DuplicateDestination) => cursor <= Len(entries)

\* C27 witness: a plan was returned for a scan in which one file resolves to
\* the path of another file, and another file was planned
C27_Witness ==
    /\ PlanReturned
    /\ Len(operations.plannedOps) = 1
    /\ \E j \in 1..Len(entries) :
           /\ DestinationTaken(entries[j])
           /\ getTargetPath(entries[j], now).value # FullPath(entries[j])

(***************************************************************************)
(* Removal of directories in main.ts (specification SpecSeq).            *)
(***************************************************************************)
\* the directories a step removes
RemovedDirs == dirs \ dirs'

\* d is a directory under a _YYYY directory of the root whose name is not a
\* month name
IsUnorganizedDir(d) ==
    /\ Dirname(Dirname(d)) = rootDir
    /\ IsYearDirName(Basename(Dirname(d)))
    /\ \A m \in 1..12 : MONTH_NAMES[m] # Basename(d)

\* consolidateUnorganizedDirectories has done the entries of a directory
AtLeave ==
    /\ pc = "consolidating"
    /\ stack # <<>>
    /\ Top.i > Len(Top.listing)

\* C28: in main.ts a step that removes a directory removes one unorganized
\* directory that holds no file and no directory and deletes no file; and
\* when the entries of an unorganized directory are done and something is
\* left in it, the directory stays and one error is counted.
C28_RemovesOnlyEmpty ==
    [][ /\ RemovedDirs # {}
            => /\ files' = files
               /\ \E d \in dirs :
                      /\ RemovedDirs = {d}
                      /\ IsUnorganizedDir(d)
                      /\ ~\E p \in DOMAIN files \cup dirs : Dirname(p) = d
        /\ (AtLeave /\ \E p \in DOMAIN files \cup dirs : Dirname(p) = Top.dir)
            => /\ dirs' = dirs
               /\ files' = files
               /\ totalErrors' = totalErrors + 1
      ]_vars

\* C28 witness: one unorganized directory was emptied and removed, and
\* another entry of the tree is still there
C28_Witness ==
    /\ variant = "creation"
    /\ pc = "organize"
    /\ totalConsolidated = 1
    /\ totalErrors = 0
    /\ dirs0 \ dirs = {"/shots/_2023/misc"}
    /\ Cardinality(DOMAIN files) = Cardinality(DOMAIN files0)

(***************************************************************************)
(* Properties of the planner applied to one file (specification SpecDest). *)
(***************************************************************************)
\* C29 (as claimed): for a scanned file whose name shouldOrganizeFile accepts
\* and whose date resolves, getTargetPath returns a path that passes
\* DestDirPathSchema, and planOperations raises nothing but a duplicate
\* destination.
C29_AcceptedHasValidDestination ==
    (probe.fn = "destination" /\ probe.called /\ probe.accepted /\ probe.date.ok)
        => /\ probe.target.ok
           /\ DestDirPathSchema(probe.target.value)
           /\ probe.planned.error \in {"none", DuplicateDestination}

(***************************************************************************)
(* Renames of one run (specification SpecSeq).                           *)
(***************************************************************************)
\* A step that renames takes a file from a path where it has stood since the
\* run started to a path where no file stood then.  A path a file was renamed
\* to is thus never the source of a later rename.
RenamesUnmovedFile ==
    files' # files
        => /\ \A p \in DOMAIN files \ DOMAIN files' :
                  p \in DOMAIN files0 /\ files[p] = files0[p]
           /\ \A p \in DOMAIN files' \ DOMAIN files : p \notin DOMAIN files0
           /\ Cardinality(DOMAIN files \ DOMAIN files') = 1

\* C30: within one run of main.ts or part_000 no file is renamed twice: every
\* rename takes a file that no rename of the run has put where it is, so a
\* file consolidateUnorganizedDirectories moved is not moved by organizeFiles
\* and a file moved into its target directory is not moved when the
\* recursion visits that directory.
C30_NoFileRenamedTwice ==
    /\ [][RenamesUnmovedFile]_vars
    /\ [](MovedFiles \cap DOMAIN files0 = {})

\* C30 witness: organizeFiles of main.ts has met the file that consolidation
\* moved into a month directory and has left it there
C30_Witness ==
    /\ variant = "creation"
    /\ pc = "done"
    /\ totalConsolidated = 1
    /\ results.processed = 0
    /\ results.skipped = 1
    /\ MovedFiles = {"/shots/_2023/06 June/Screenshot 2025-06-01 at 09.00.00 AM.png"}
    /\ files["/shots/_2023/06 June/Screenshot 2025-06-01 at 09.00.00 AM.png"].birthtime.year = 2025

=============================================================================
